---- MODULE Spec2Model ----
(***************************************************************************)
(* Model of pallet-subnet (pallets/pallet-subnet/src/lib.rs): the Subnets  *)
(* and Providers storage maps, the deposited events, and the two           *)
(* dispatchables create_subnet and register_provider.                      *)
(***************************************************************************)
EXTENDS Integers, Sequences, FiniteSets, TLC

(* Number of dispatched calls explored in one behaviour. *)
MaxCalls == 4

VARIABLES
    subnets,    \* Subnets<T>: StorageMap AccountId -> SubnetMetadata (OptionQuery)
    providers,  \* Providers<T>: StorageMap AccountId -> Vec<ProviderMetadata> (ValueQuery)
    events,     \* the events deposited through deposit_event, in order
    history     \* the dispatched calls so far, each with its arguments and DispatchResult

vars == <<subnets, providers, events, history>>

---------------------------------------------------------------------------
(* Inputs *)

AccountId == {"alice", "bob"}

(* frame_system RawOrigin: Signed(AccountId) or an unsigned origin. The
   unsigned origins (Root, None) all take the same branch of ensure_signed;
   None stands for them. *)
Origin == {<<"Signed", a>> : a \in AccountId} \cup {<<"None">>}

SubnetMetadata ==
    { [title |-> t, intro |-> "", rewards_allocation |-> r,
       core_performance |-> 0, gpunet_performance |-> 0, metadata |-> ""] :
         <<t, r>> \in {<<"net1", 100>>, <<"net2", 7>>} }

ProviderMetadata ==
    { [name |-> n, resource_details |-> ""] : n \in {"p1", "p2"} }

Error == {"SubnetAlreadyExists", "ProviderAlreadyRegistered", "SubnetNotFound"}

---------------------------------------------------------------------------
(* Storage and event primitives *)

(* StorageMap::contains_key *)
contains_key(map, k) == k \in DOMAIN map

(* Variant of insert that drops every other key of the map. *)
insert_only(map, k, v) == [x \in {k} |-> v]

(* StorageMap::insert: creates the key or overwrites its value. *)
insert(map, k, v) ==
    [x \in (DOMAIN map) \cup {k} |-> IF x = k THEN v ELSE map[x]]

(* The ValueQuery getter of Providers: an absent key reads as the empty Vec. *)
providers_get(map, k) == IF k \in DOMAIN map THEN map[k] ELSE <<>>

(* Variant of push that skips a value the Vec already holds. *)
push_unique(vec, x) ==
    IF \E i \in 1..Len(vec) : vec[i] = x THEN vec ELSE Append(vec, x)

(* Variant of push that inserts at the front of the Vec. *)
push_front(vec, x) == <<x>> \o vec

(* Vec::push *)
push(vec, x) == Append(vec, x)

(* Variant of mutate_push that does not read the stored Vec: it stores a
   Vec of the new value alone. *)
mutate_replace(map, k, v) == insert(map, k, push(<< >>, v))

(* Providers::mutate(&k, |providers| providers.push(v)): read the value or
   its default, apply the closure, write the result back under k. *)
mutate_push(map, k, v) == insert(map, k, push(providers_get(map, k), v))

(* Variant of Event_SubnetCreated that carries SubnetMetadata::default()
   in place of the stored metadata. *)
Event_SubnetCreated_default(who, metadata) ==
    <<"SubnetCreated", who,
      [title |-> "", intro |-> "", rewards_allocation |-> 0,
       core_performance |-> 0, gpunet_performance |-> 0, metadata |-> ""]>>

Event_SubnetCreated(who, metadata) == <<"SubnetCreated", who, metadata>>

Event_ProviderRegistered(who, provider_metadata) ==
    <<"ProviderRegistered", who, provider_metadata>>

(* Variant of deposit_event that records nothing. *)
deposit_event_dropped(log, e) == log

deposit_event(log, e) == Append(log, e)

(* ensure_signed: Ok(who) for RawOrigin::Signed(who), Err(BadOrigin) otherwise. *)
ensure_signed(origin) ==
    IF origin[1] = "Signed"
    THEN [ok |-> TRUE, who |-> origin[2]]
    ELSE [ok |-> FALSE, who |-> "-"]

---------------------------------------------------------------------------
(* Dispatchables *)

CreateCall(origin, metadata, result) ==
    [op |-> "create_subnet", origin |-> origin, metadata |-> metadata,
     result |-> result]

RegisterCall(origin, subnet_owner, provider_metadata, result) ==
    [op |-> "register_provider", origin |-> origin,
     subnet_owner |-> subnet_owner, provider_metadata |-> provider_metadata,
     result |-> result]

Init ==
    /\ subnets = << >>
    /\ providers = << >>
    /\ events = << >>
    /\ history = << >>

(* Variant of create_subnet that reports an existing subnet with the wrong
   error kind. *)
create_subnet_wrong_error(origin, metadata) ==
    LET signed == ensure_signed(origin)
        who == signed.who
    IN  /\ Len(history) < MaxCalls
        /\ IF ~signed.ok
           THEN /\ history' = Append(history, CreateCall(origin, metadata, "BadOrigin"))
                /\ UNCHANGED <<subnets, providers, events>>
           ELSE IF contains_key(subnets, who)
           THEN /\ history' = Append(history,
                                  CreateCall(origin, metadata, "SubnetNotFound"))
                /\ UNCHANGED <<subnets, providers, events>>
           ELSE /\ subnets' = insert(subnets, who, metadata)
                /\ events' = deposit_event(events, Event_SubnetCreated(who, metadata))
                /\ history' = Append(history, CreateCall(origin, metadata, "Ok"))
                /\ UNCHANGED providers

(* Variant of create_subnet whose check and write are not serialised: with
   a record already stored the call either fails or overwrites it. *)
create_subnet_racy(origin, metadata) ==
    LET signed == ensure_signed(origin)
        who == signed.who
    IN  /\ Len(history) < MaxCalls
        /\ IF ~signed.ok
           THEN /\ history' = Append(history, CreateCall(origin, metadata, "BadOrigin"))
                /\ UNCHANGED <<subnets, providers, events>>
           ELSE \/ /\ contains_key(subnets, who)
                   /\ history' = Append(history,
                                     CreateCall(origin, metadata, "SubnetAlreadyExists"))
                   /\ UNCHANGED <<subnets, providers, events>>
                \/ /\ subnets' = insert(subnets, who, metadata)
                   /\ events' = deposit_event(events, Event_SubnetCreated(who, metadata))
                   /\ history' = Append(history, CreateCall(origin, metadata, "Ok"))
                   /\ UNCHANGED providers

(* Variant of create_subnet that also writes an empty provider list under
   the caller's key. *)
create_subnet_init_providers(origin, metadata) ==
    LET signed == ensure_signed(origin)
        who == signed.who
    IN  /\ Len(history) < MaxCalls
        /\ IF ~signed.ok
           THEN /\ history' = Append(history, CreateCall(origin, metadata, "BadOrigin"))
                /\ UNCHANGED <<subnets, providers, events>>
           ELSE IF contains_key(subnets, who)
           THEN /\ history' = Append(history,
                                  CreateCall(origin, metadata, "SubnetAlreadyExists"))
                /\ UNCHANGED <<subnets, providers, events>>
           ELSE /\ subnets' = insert(subnets, who, metadata)
                /\ providers' = insert(providers, who, << >>)
                /\ events' = deposit_event(events, Event_SubnetCreated(who, metadata))
                /\ history' = Append(history, CreateCall(origin, metadata, "Ok"))

(* Variant of create_subnet without the SubnetAlreadyExists check: the
   insert overwrites an existing record. *)
create_subnet_unchecked(origin, metadata) ==
    LET signed == ensure_signed(origin)
        who == signed.who
    IN  /\ Len(history) < MaxCalls
        /\ IF ~signed.ok
           THEN /\ history' = Append(history, CreateCall(origin, metadata, "BadOrigin"))
                /\ UNCHANGED <<subnets, providers, events>>
           ELSE /\ subnets' = insert(subnets, who, metadata)
                /\ events' = deposit_event(events, Event_SubnetCreated(who, metadata))
                /\ history' = Append(history, CreateCall(origin, metadata, "Ok"))
                /\ UNCHANGED providers

create_subnet(origin, metadata) ==
    LET signed == ensure_signed(origin)
        who == signed.who
    IN  /\ Len(history) < MaxCalls
        /\ IF ~signed.ok
           THEN /\ history' = Append(history, CreateCall(origin, metadata, "BadOrigin"))
                /\ UNCHANGED <<subnets, providers, events>>
           ELSE IF contains_key(subnets, who)
           THEN /\ history' = Append(history,
                                  CreateCall(origin, metadata, "SubnetAlreadyExists"))
                /\ UNCHANGED <<subnets, providers, events>>
           ELSE /\ subnets' = insert(subnets, who, metadata)
                /\ events' = deposit_event(events, Event_SubnetCreated(who, metadata))
                /\ history' = Append(history, CreateCall(origin, metadata, "Ok"))
                /\ UNCHANGED providers

(* Variant of register_provider that pushes the provider before the
   SubnetNotFound check, so a failing call has already written. *)
register_provider_write_first(origin, subnet_owner, provider_metadata) ==
    LET signed == ensure_signed(origin)
        who == signed.who
    IN  /\ Len(history) < MaxCalls
        /\ IF ~signed.ok
           THEN /\ history' = Append(history,
                      RegisterCall(origin, subnet_owner, provider_metadata, "BadOrigin"))
                /\ UNCHANGED <<subnets, providers, events>>
           ELSE IF ~contains_key(subnets, subnet_owner)
           THEN /\ history' = Append(history,
                      RegisterCall(origin, subnet_owner, provider_metadata, "SubnetNotFound"))
                /\ providers' = mutate_push(providers, subnet_owner, provider_metadata)
                /\ UNCHANGED <<subnets, events>>
           ELSE /\ providers' = mutate_push(providers, subnet_owner, provider_metadata)
                /\ events' = deposit_event(events,
                                 Event_ProviderRegistered(who, provider_metadata))
                /\ history' = Append(history,
                      RegisterCall(origin, subnet_owner, provider_metadata, "Ok"))
                /\ UNCHANGED subnets

(* Variant of register_provider whose event carries the subnet owner. *)
register_provider_owner_event(origin, subnet_owner, provider_metadata) ==
    LET signed == ensure_signed(origin)
        who == signed.who
    IN  /\ Len(history) < MaxCalls
        /\ IF ~signed.ok
           THEN /\ history' = Append(history,
                      RegisterCall(origin, subnet_owner, provider_metadata, "BadOrigin"))
                /\ UNCHANGED <<subnets, providers, events>>
           ELSE IF ~contains_key(subnets, subnet_owner)
           THEN /\ history' = Append(history,
                      RegisterCall(origin, subnet_owner, provider_metadata, "SubnetNotFound"))
                /\ UNCHANGED <<subnets, providers, events>>
           ELSE /\ providers' = mutate_push(providers, subnet_owner, provider_metadata)
                /\ events' = deposit_event(events,
                                 Event_ProviderRegistered(subnet_owner, provider_metadata))
                /\ history' = Append(history,
                      RegisterCall(origin, subnet_owner, provider_metadata, "Ok"))
                /\ UNCHANGED subnets

(* Variant of register_provider that only lets the owner register. *)
register_provider_owner_only(origin, subnet_owner, provider_metadata) ==
    LET signed == ensure_signed(origin)
        who == signed.who
    IN  /\ Len(history) < MaxCalls
        /\ IF ~signed.ok
           THEN /\ history' = Append(history,
                      RegisterCall(origin, subnet_owner, provider_metadata, "BadOrigin"))
                /\ UNCHANGED <<subnets, providers, events>>
           ELSE IF ~contains_key(subnets, subnet_owner) \/ who # subnet_owner
           THEN /\ history' = Append(history,
                      RegisterCall(origin, subnet_owner, provider_metadata, "SubnetNotFound"))
                /\ UNCHANGED <<subnets, providers, events>>
           ELSE /\ providers' = mutate_push(providers, subnet_owner, provider_metadata)
                /\ events' = deposit_event(events,
                                 Event_ProviderRegistered(who, provider_metadata))
                /\ history' = Append(history,
                      RegisterCall(origin, subnet_owner, provider_metadata, "Ok"))
                /\ UNCHANGED subnets

(* Variant of register_provider that rejects a payload the owner's list
   already holds with ProviderAlreadyRegistered. *)
register_provider_dedup(origin, subnet_owner, provider_metadata) ==
    LET signed == ensure_signed(origin)
        who == signed.who
        stored == providers_get(providers, subnet_owner)
    IN  /\ Len(history) < MaxCalls
        /\ IF ~signed.ok
           THEN /\ history' = Append(history,
                      RegisterCall(origin, subnet_owner, provider_metadata, "BadOrigin"))
                /\ UNCHANGED <<subnets, providers, events>>
           ELSE IF ~contains_key(subnets, subnet_owner)
           THEN /\ history' = Append(history,
                      RegisterCall(origin, subnet_owner, provider_metadata, "SubnetNotFound"))
                /\ UNCHANGED <<subnets, providers, events>>
           ELSE IF \E i \in 1..Len(stored) : stored[i] = provider_metadata
           THEN /\ history' = Append(history,
                      RegisterCall(origin, subnet_owner, provider_metadata,
                                   "ProviderAlreadyRegistered"))
                /\ UNCHANGED <<subnets, providers, events>>
           ELSE /\ providers' = mutate_push(providers, subnet_owner, provider_metadata)
                /\ events' = deposit_event(events,
                                 Event_ProviderRegistered(who, provider_metadata))
                /\ history' = Append(history,
                      RegisterCall(origin, subnet_owner, provider_metadata, "Ok"))
                /\ UNCHANGED subnets

(* Variant of register_provider that looks the subnet up before it checks
   the origin. *)
register_provider_check_first(origin, subnet_owner, provider_metadata) ==
    LET signed == ensure_signed(origin)
        who == signed.who
    IN  /\ Len(history) < MaxCalls
        /\ IF ~contains_key(subnets, subnet_owner)
           THEN /\ history' = Append(history,
                      RegisterCall(origin, subnet_owner, provider_metadata, "SubnetNotFound"))
                /\ UNCHANGED <<subnets, providers, events>>
           ELSE IF ~signed.ok
           THEN /\ history' = Append(history,
                      RegisterCall(origin, subnet_owner, provider_metadata, "BadOrigin"))
                /\ UNCHANGED <<subnets, providers, events>>
           ELSE /\ providers' = mutate_push(providers, subnet_owner, provider_metadata)
                /\ events' = deposit_event(events,
                                 Event_ProviderRegistered(who, provider_metadata))
                /\ history' = Append(history,
                      RegisterCall(origin, subnet_owner, provider_metadata, "Ok"))
                /\ UNCHANGED subnets

(* Variant of register_provider without the SubnetNotFound check. *)
register_provider_unchecked(origin, subnet_owner, provider_metadata) ==
    LET signed == ensure_signed(origin)
        who == signed.who
    IN  /\ Len(history) < MaxCalls
        /\ IF ~signed.ok
           THEN /\ history' = Append(history,
                      RegisterCall(origin, subnet_owner, provider_metadata, "BadOrigin"))
                /\ UNCHANGED <<subnets, providers, events>>
           ELSE /\ providers' = mutate_push(providers, subnet_owner, provider_metadata)
                /\ events' = deposit_event(events,
                                 Event_ProviderRegistered(who, provider_metadata))
                /\ history' = Append(history,
                      RegisterCall(origin, subnet_owner, provider_metadata, "Ok"))
                /\ UNCHANGED subnets

register_provider(origin, subnet_owner, provider_metadata) ==
    LET signed == ensure_signed(origin)
        who == signed.who
    IN  /\ Len(history) < MaxCalls
        /\ IF ~signed.ok
           THEN /\ history' = Append(history,
                      RegisterCall(origin, subnet_owner, provider_metadata, "BadOrigin"))
                /\ UNCHANGED <<subnets, providers, events>>
           ELSE IF ~contains_key(subnets, subnet_owner)
           THEN /\ history' = Append(history,
                      RegisterCall(origin, subnet_owner, provider_metadata, "SubnetNotFound"))
                /\ UNCHANGED <<subnets, providers, events>>
           ELSE /\ providers' = mutate_push(providers, subnet_owner, provider_metadata)
                /\ events' = deposit_event(events,
                                 Event_ProviderRegistered(who, provider_metadata))
                /\ history' = Append(history,
                      RegisterCall(origin, subnet_owner, provider_metadata, "Ok"))
                /\ UNCHANGED subnets

Next ==
    \/ \E origin \in Origin, metadata \in SubnetMetadata :
           create_subnet(origin, metadata)
    \/ \E origin \in Origin, subnet_owner \in AccountId,
          provider_metadata \in ProviderMetadata :
           register_provider(origin, subnet_owner, provider_metadata)

Spec == Init /\ [][Next]_vars

---------------------------------------------------------------------------
(* Vocabulary of the properties *)

Calls == 1..Len(history)

(* The call dispatched by the step under consideration (in an action
   formula) and the most recent call (in a state predicate). *)
Dispatched == Len(history') = Len(history) + 1
NewCall == history'[Len(history')]
LastCall == history[Len(history)]

IsCreateBy(i, A) ==
    /\ history[i].op = "create_subnet"
    /\ history[i].origin = <<"Signed", A>>

IsRegisterOn(i, O) ==
    /\ history[i].op = "register_provider"
    /\ history[i].subnet_owner = O

IsSigned(c) == c.origin[1] = "Signed"

(* The stored provider list of A, an absent key reading as empty. *)
ProvidersOf(map, A) == IF A \in DOMAIN map THEN map[A] ELSE << >>

(* The indices of the successful register_provider calls on O, and their
   payloads in call order. *)
RegisteredOn(O) == {i \in Calls : IsRegisterOn(i, O) /\ history[i].result = "Ok"}

RECURSIVE PayloadsUpTo(_, _)
PayloadsUpTo(O, n) ==
    IF n = 0 THEN << >>
    ELSE IF n \in RegisteredOn(O)
         THEN Append(PayloadsUpTo(O, n - 1), history[n].provider_metadata)
         ELSE PayloadsUpTo(O, n - 1)

---------------------------------------------------------------------------
(* C1. Uniqueness: starting from an account A without a subnet, the first
   create_subnet signed by A returns Ok and every later one returns
   SubnetAlreadyExists, whatever its metadata and whatever was dispatched in
   between; Subnets[A] is the metadata of the first call. *)
C1_Uniqueness ==
    \A A \in AccountId :
        LET byA == {i \in Calls : IsCreateBy(i, A)} IN
        byA # {} =>
            LET first == CHOOSE i \in byA : \A j \in byA : i <= j IN
            /\ history[first].result = "Ok"
            /\ \A j \in byA \ {first} : history[j].result = "SubnetAlreadyExists"
            /\ A \in DOMAIN subnets
            /\ subnets[A] = history[first].metadata

(* A signed a create_subnet, then another call was dispatched, then A signed
   a second create_subnet with different metadata. *)
C1_Witness ==
    \E A \in AccountId : \E i, j, k \in Calls :
        /\ i < j /\ j < k
        /\ IsCreateBy(i, A) /\ IsCreateBy(k, A)
        /\ ~IsCreateBy(j, A) /\ history[j].result = "Ok"
        /\ history[i].metadata # history[k].metadata
        /\ history[k].result = "SubnetAlreadyExists"

(* C2. Existence gating: a register_provider from a signed caller that names
   an owner without a subnet record returns SubnetNotFound and leaves the
   owner's provider list as it was, absent if it was absent. *)
C2_ExistenceGating ==
    [][ (/\ Dispatched
         /\ NewCall.op = "register_provider"
         /\ IsSigned(NewCall)
         /\ NewCall.subnet_owner \notin DOMAIN subnets)
        => (/\ NewCall.result = "SubnetNotFound"
            /\ ProvidersOf(providers', NewCall.subnet_owner)
                 = ProvidersOf(providers, NewCall.subnet_owner)
            /\ (NewCall.subnet_owner \in DOMAIN providers')
                 <=> (NewCall.subnet_owner \in DOMAIN providers)) ]_vars

(* The last call was a signed register_provider on an owner without a
   subnet, while another account has a subnet with a registered provider. *)
C2_Witness ==
    /\ history # << >>
    /\ LastCall.op = "register_provider"
    /\ IsSigned(LastCall)
    /\ LastCall.result = "SubnetNotFound"
    /\ LastCall.subnet_owner \notin DOMAIN subnets
    /\ LastCall.subnet_owner \notin DOMAIN providers
    /\ \E B \in DOMAIN subnets : ProvidersOf(providers, B) # << >>

(* C3. Append ordering: for every subnet owner O, Providers[O] is exactly
   the list of the payloads of the successful register_provider calls on O,
   in call order (so its length is the number of those calls). *)
C3_AppendOrdering ==
    \A O \in DOMAIN subnets :
        /\ ProvidersOf(providers, O) = PayloadsUpTo(O, Len(history))
        /\ Len(ProvidersOf(providers, O)) = Cardinality(RegisteredOn(O))

(* Two successful registrations on O with different payloads and different
   callers, with a call targeting another account between them. *)
C3_Witness ==
    \E O \in AccountId : \E i, j, k \in Calls :
        /\ i < j /\ j < k
        /\ i \in RegisteredOn(O) /\ k \in RegisteredOn(O)
        /\ history[j].op = "register_provider" /\ history[j].subnet_owner # O
        /\ history[i].provider_metadata # history[k].provider_metadata
        /\ history[i].origin # history[k].origin

(* C4. Non-mutation on failure: a create_subnet or register_provider call
   that returns SubnetAlreadyExists or SubnetNotFound leaves Subnets and
   Providers as they were and deposits no event. *)
C4_NoMutationOnFailure ==
    [][ (Dispatched /\ NewCall.result \in {"SubnetAlreadyExists", "SubnetNotFound"})
        => (subnets' = subnets /\ providers' = providers /\ events' = events) ]_vars

(* Both error kinds were returned, the later one in a state with a stored
   subnet, a stored provider and deposited events. *)
C4_Witness ==
    /\ \E i \in Calls : history[i].result = "SubnetAlreadyExists"
    /\ \E i \in Calls : history[i].result = "SubnetNotFound"
    /\ LastCall.result \in {"SubnetAlreadyExists", "SubnetNotFound"}
    /\ Len(events) >= 2
    /\ \E A \in DOMAIN providers : providers[A] # << >>

(* C5. A create_subnet(Signed(A), M) that returns Ok ends with
   Subnets[A] = M and with the event log extended by exactly one event,
   SubnetCreated(A, M). *)
C5_CreateEffect ==
    [][ (Dispatched /\ NewCall.op = "create_subnet" /\ NewCall.result = "Ok")
        => (/\ IsSigned(NewCall)
            /\ NewCall.origin[2] \in DOMAIN subnets'
            /\ subnets'[NewCall.origin[2]] = NewCall.metadata
            /\ events' = Append(events,
                   <<"SubnetCreated", NewCall.origin[2], NewCall.metadata>>)) ]_vars

(* The last call created a second subnet, after events of both kinds. *)
C5_Witness ==
    /\ history # << >>
    /\ LastCall.op = "create_subnet" /\ LastCall.result = "Ok"
    /\ Cardinality(DOMAIN subnets) = 2
    /\ \E i \in 1..Len(events) : events[i][1] = "ProviderRegistered"
    /\ events[Len(events)] = <<"SubnetCreated", LastCall.origin[2], LastCall.metadata>>

(* C6. A register_provider(Signed(C), O, P) that returns Ok extends the
   event log by exactly one event, ProviderRegistered(C, P): the account in
   it is the caller C, not the owner O, also when C differs from O. *)
C6_RegisterEvent ==
    [][ (Dispatched /\ NewCall.op = "register_provider" /\ NewCall.result = "Ok")
        => (/\ IsSigned(NewCall)
            /\ events' = Append(events,
                   <<"ProviderRegistered", NewCall.origin[2],
                     NewCall.provider_metadata>>)) ]_vars

(* The last call registered a provider on a subnet the caller does not own,
   and the last event names the caller. *)
C6_Witness ==
    /\ history # << >>
    /\ LastCall.op = "register_provider" /\ LastCall.result = "Ok"
    /\ LastCall.origin[2] # LastCall.subnet_owner
    /\ events[Len(events)][2] = LastCall.origin[2]
    /\ events[Len(events)][2] # LastCall.subnet_owner

(* C7. Subnet immutability and permanence: no step removes or changes a
   stored subnet record, so a record once stored is there, unchanged, in
   every later state. *)
C7_SubnetPermanent ==
    [][ \A A \in DOMAIN subnets :
            A \in DOMAIN subnets' /\ subnets'[A] = subnets[A] ]_vars

(* After A's subnet was created, A signed another create_subnet with other
   metadata and a provider was registered on A. *)
C7_Witness ==
    \E A \in DOMAIN subnets : \E i, j, k \in Calls :
        /\ i < j /\ i < k
        /\ IsCreateBy(i, A) /\ history[i].result = "Ok"
        /\ IsCreateBy(j, A) /\ history[j].metadata # subnets[A]
        /\ k \in RegisteredOn(A)

(* C8. No orphan provider lists: every account with a non-empty provider
   list has a subnet record. *)
C8_NoOrphanProviders ==
    \A A \in AccountId :
        ProvidersOf(providers, A) # << >> => A \in DOMAIN subnets

(* One account has providers; a registration on the other account, which
   has no subnet, was attempted by a signed caller. *)
C8_Witness ==
    /\ \E A \in AccountId : ProvidersOf(providers, A) # << >>
    /\ \E B \in AccountId \ DOMAIN subnets : \E i \in Calls :
          IsRegisterOn(i, B) /\ IsSigned(history[i])

(* C9. Permissive registration: whenever O has a subnet, a register_provider
   on O signed by any account C returns Ok and Providers[O] becomes the old
   list with the payload appended, whoever C is. *)
C9_PermissiveRegistration ==
    [][ (/\ Dispatched
         /\ NewCall.op = "register_provider"
         /\ IsSigned(NewCall)
         /\ NewCall.subnet_owner \in DOMAIN subnets)
        => (/\ NewCall.result = "Ok"
            /\ NewCall.subnet_owner \in DOMAIN providers'
            /\ providers'[NewCall.subnet_owner]
                 = Append(ProvidersOf(providers, NewCall.subnet_owner),
                          NewCall.provider_metadata)) ]_vars

(* The last call, by a caller that is not the owner and owns no subnet,
   registered a provider. *)
C9_Witness ==
    /\ history # << >>
    /\ LastCall.op = "register_provider" /\ LastCall.result = "Ok"
    /\ LastCall.origin[2] # LastCall.subnet_owner
    /\ LastCall.origin[2] \notin DOMAIN subnets

Count(vec, x) == Cardinality({i \in 1..Len(vec) : vec[i] = x})

(* C10. Duplicate providers are permitted: registering on O a payload P that
   Providers[O] already contains returns Ok, and Providers[O] then contains
   P once more than before. *)
C10_DuplicatesPermitted ==
    [][ (/\ Dispatched
         /\ NewCall.op = "register_provider"
         /\ IsSigned(NewCall)
         /\ NewCall.subnet_owner \in DOMAIN subnets
         /\ Count(ProvidersOf(providers, NewCall.subnet_owner),
                  NewCall.provider_metadata) > 0)
        => (/\ NewCall.result = "Ok"
            /\ Count(ProvidersOf(providers', NewCall.subnet_owner),
                     NewCall.provider_metadata)
                 = Count(ProvidersOf(providers, NewCall.subnet_owner),
                         NewCall.provider_metadata) + 1) ]_vars

(* The last call registered a payload that the list now holds twice. *)
C10_Witness ==
    /\ history # << >>
    /\ LastCall.op = "register_provider" /\ LastCall.result = "Ok"
    /\ Count(ProvidersOf(providers, LastCall.subnet_owner),
             LastCall.provider_metadata) >= 2

(* C11. ProviderAlreadyRegistered is unreachable: no create_subnet or
   register_provider call, in any reachable state and with any input,
   returns the declared error ProviderAlreadyRegistered. *)
C11_ProviderAlreadyRegisteredUnreachable ==
    /\ "ProviderAlreadyRegistered" \in Error
    /\ \A i \in Calls : history[i].result # "ProviderAlreadyRegistered"

(* A payload was registered on an owner whose list already held it, the
   one situation the error's name describes. *)
C11_Witness ==
    \E O \in AccountId : \E i, j \in RegisteredOn(O) :
        /\ i < j
        /\ history[i].provider_metadata = history[j].provider_metadata
        /\ history[i].origin = history[j].origin

(* C12 as stated. Every failing create_subnet returns SubnetAlreadyExists
   and every failing register_provider returns SubnetNotFound; no call
   fails with any other value. *)
C12_OnlyRegistryErrors ==
    \A i \in Calls :
        history[i].result # "Ok" =>
            history[i].result =
                (IF history[i].op = "create_subnet"
                 THEN "SubnetAlreadyExists" ELSE "SubnetNotFound")

(* C12 as amended. A failing call whose origin is a signed account returns
   SubnetAlreadyExists from create_subnet and SubnetNotFound from
   register_provider; a call whose origin is not signed fails with
   BadOrigin; no call fails with any other value. *)
C12_SpecificErrors ==
    \A i \in Calls :
        history[i].result # "Ok" =>
            history[i].result =
                (IF ~IsSigned(history[i]) THEN "BadOrigin"
                 ELSE IF history[i].op = "create_subnet"
                 THEN "SubnetAlreadyExists" ELSE "SubnetNotFound")

(* All three failures happened: both registry errors from signed callers
   and a rejected unsigned origin. *)
C12_Witness ==
    /\ \E i \in Calls : history[i].op = "create_subnet"
                         /\ history[i].result = "SubnetAlreadyExists"
    /\ \E i \in Calls : history[i].op = "register_provider"
                         /\ history[i].result = "SubnetNotFound"
    /\ \E i \in Calls : history[i].result = "BadOrigin"

(* The outcome of a call as a function of the stored maps and the call's
   input alone: the result, the new maps and the events emitted. *)
Outcome(S, P, c) ==
    IF c.origin[1] # "Signed"
    THEN [result |-> "BadOrigin", subnets |-> S, providers |-> P, emitted |-> << >>]
    ELSE IF c.op = "create_subnet"
    THEN IF c.origin[2] \in DOMAIN S
         THEN [result |-> "SubnetAlreadyExists", subnets |-> S, providers |-> P,
               emitted |-> << >>]
         ELSE [result |-> "Ok",
               subnets |-> [a \in DOMAIN S \cup {c.origin[2]} |->
                               IF a = c.origin[2] THEN c.metadata ELSE S[a]],
               providers |-> P,
               emitted |-> << <<"SubnetCreated", c.origin[2], c.metadata>> >>]
    ELSE IF c.subnet_owner \notin DOMAIN S
         THEN [result |-> "SubnetNotFound", subnets |-> S, providers |-> P,
               emitted |-> << >>]
         ELSE [result |-> "Ok",
               subnets |-> S,
               providers |-> [a \in DOMAIN P \cup {c.subnet_owner} |->
                                 IF a = c.subnet_owner
                                 THEN ProvidersOf(P, a) \o <<c.provider_metadata>>
                                 ELSE P[a]],
               emitted |-> << <<"ProviderRegistered", c.origin[2],
                                c.provider_metadata>> >>]

(* C13. Determinism: the result of a call, the new Subnets and Providers
   maps and the events it emits are a function of the current maps and the
   call's caller and arguments, so two registries in the same state given
   the same call agree on all of them; nothing else (the event log, earlier
   calls, a choice) has a part in it. *)
C13_Determinism ==
    [][ Dispatched =>
          LET out == Outcome(subnets, providers, NewCall) IN
          /\ NewCall.result = out.result
          /\ subnets' = out.subnets
          /\ providers' = out.providers
          /\ events' = events \o out.emitted ]_vars

(* The same call was dispatched in the same state of the maps at two points
   with different event logs behind them: a failing create_subnet by a
   signed caller, repeated after a provider was registered. *)
C13_Witness ==
    \E i, j, k \in Calls :
        /\ i < j /\ j < k
        /\ history[i] = history[k]
        /\ IsSigned(history[i])
        /\ history[i].op = "create_subnet"
        /\ history[i].result = "SubnetAlreadyExists"
        /\ history[j].op = "register_provider" /\ history[j].result = "Ok"

(* C14. Frame of create_subnet: a create_subnet signed by A that returns Ok
   changes Subnets at key A only; every other key of Subnets, present or
   absent, and the whole Providers map, A's key included, are unchanged. *)
C14_CreateFrame ==
    [][ (Dispatched /\ NewCall.op = "create_subnet" /\ NewCall.result = "Ok")
        => (/\ DOMAIN subnets' \ {NewCall.origin[2]}
                 = DOMAIN subnets \ {NewCall.origin[2]}
            /\ \A B \in DOMAIN subnets \ {NewCall.origin[2]} :
                   subnets'[B] = subnets[B]
            /\ providers' = providers) ]_vars

(* The last call created a subnet while another account already had a
   subnet with a registered provider. *)
C14_Witness ==
    /\ history # << >>
    /\ LastCall.op = "create_subnet" /\ LastCall.result = "Ok"
    /\ \E B \in DOMAIN subnets \ {LastCall.origin[2]} :
          ProvidersOf(providers, B) # << >>
    /\ LastCall.origin[2] \notin DOMAIN providers

(* C15. Frame of register_provider: a register_provider on O that returns
   Ok leaves Subnets unchanged, leaves the provider list of every other
   account unchanged (the caller's too), and keeps every earlier entry of
   Providers[O] in its position with the new entry after them. *)
C15_RegisterFrame ==
    [][ (Dispatched /\ NewCall.op = "register_provider" /\ NewCall.result = "Ok")
        => LET O == NewCall.subnet_owner
               old == ProvidersOf(providers, O)
               new == ProvidersOf(providers', O)
           IN  /\ subnets' = subnets
               /\ DOMAIN providers' \ {O} = DOMAIN providers \ {O}
               /\ \A B \in DOMAIN providers \ {O} : providers'[B] = providers[B]
               /\ Len(new) = Len(old) + 1
               /\ \A i \in 1..Len(old) : new[i] = old[i]
               /\ new[Len(new)] = NewCall.provider_metadata ]_vars

(* The last call registered a provider on O, signed by another account that
   has a provider list of its own. *)
C15_Witness ==
    /\ history # << >>
    /\ LastCall.op = "register_provider" /\ LastCall.result = "Ok"
    /\ LastCall.origin[2] # LastCall.subnet_owner
    /\ ProvidersOf(providers, LastCall.origin[2]) # << >>

(* C16. Provider lists only grow: in every step and for every account A the
   list Providers[A] before the step is a prefix of the list after it. *)
C16_ProvidersOnlyGrow ==
    [][ \A A \in AccountId :
          LET old == ProvidersOf(providers, A)
              new == ProvidersOf(providers', A)
          IN  /\ Len(old) <= Len(new)
              /\ \A i \in 1..Len(old) : new[i] = old[i] ]_vars

(* A list of two different entries, in the order they were registered, has
   come through a later call. *)
C16_Witness ==
    \E A \in DOMAIN providers : \E i, j, k \in Calls :
        /\ i < j /\ j < k
        /\ RegisteredOn(A) = {i, j}
        /\ history[i].provider_metadata # history[j].provider_metadata
        /\ providers[A] = <<history[i].provider_metadata, history[j].provider_metadata>>

(* The positions of the event log holding a SubnetCreated event for A, and
   those holding a ProviderRegistered event with payload P. *)
CreatedEvents(A) ==
    {i \in 1..Len(events) : events[i][1] = "SubnetCreated" /\ events[i][2] = A}

RegisteredEvents(P) ==
    {i \in 1..Len(events) : events[i][1] = "ProviderRegistered" /\ events[i][3] = P}

(* C17. SubnetCreated events follow the write and match storage: a
   SubnetCreated(A, M) event is in the log only if Subnets[A] = M, and A is
   a key of Subnets exactly when the log holds exactly one SubnetCreated
   event for A. *)
C17_CreatedEventsMatchStorage ==
    /\ \A i \in 1..Len(events) :
          events[i][1] = "SubnetCreated" =>
              /\ events[i][2] \in DOMAIN subnets
              /\ subnets[events[i][2]] = events[i][3]
    /\ \A A \in AccountId :
          (A \in DOMAIN subnets) <=> (Cardinality(CreatedEvents(A)) = 1)

(* Both accounts have a subnet, with different metadata, and one of them
   signed a further create_subnet that was rejected. *)
C17_Witness ==
    /\ DOMAIN subnets = AccountId
    /\ \E A, B \in AccountId : subnets[A] # subnets[B]
    /\ \E i \in Calls : history[i].op = "create_subnet"
                         /\ history[i].result = "SubnetAlreadyExists"
    /\ \A A \in AccountId : CreatedEvents(A) # {}

RECURSIVE StoredCount(_, _)
(* The number of entries equal to P in the provider lists of the accounts
   in As. *)
StoredCount(As, P) ==
    IF As = {} THEN 0
    ELSE LET a == CHOOSE x \in As : TRUE
         IN  Count(ProvidersOf(providers, a), P) + StoredCount(As \ {a}, P)

RECURSIVE StoredTotal(_)
StoredTotal(As) ==
    IF As = {} THEN 0
    ELSE LET a == CHOOSE x \in As : TRUE
         IN  Len(ProvidersOf(providers, a)) + StoredTotal(As \ {a})

(* C18. ProviderRegistered events account for every stored provider: the
   number of ProviderRegistered events equals the total length of all
   provider lists, and every payload occurs in those events as many times as
   it is stored. *)
C18_RegisteredEventsMatchStorage ==
    /\ Cardinality({i \in 1..Len(events) : events[i][1] = "ProviderRegistered"})
         = StoredTotal(AccountId)
    /\ \A i \in 1..Len(events) :
          events[i][1] = "ProviderRegistered" => events[i][3] \in ProviderMetadata
    /\ \A P \in ProviderMetadata :
          Cardinality(RegisteredEvents(P)) = StoredCount(AccountId, P)

(* Providers are stored under both accounts, one payload twice. *)
C18_Witness ==
    /\ \A A \in AccountId : ProvidersOf(providers, A) # << >>
    /\ \E P \in ProviderMetadata : StoredCount(AccountId, P) >= 2

(* C19. Unsigned origin is rejected before any state check: a create_subnet
   or register_provider whose origin is not a signed account returns
   BadOrigin, whether or not the subnet concerned exists, and leaves
   Subnets, Providers and the event log unchanged. *)
C19_UnsignedRejected ==
    [][ (Dispatched /\ ~IsSigned(NewCall))
        => (/\ NewCall.result = "BadOrigin"
            /\ subnets' = subnets
            /\ providers' = providers
            /\ events' = events) ]_vars

(* Unsigned register_provider calls were rejected both on an owner with a
   subnet and on one without, and an unsigned create_subnet too. *)
C19_Witness ==
    /\ \E i \in Calls : /\ history[i].op = "register_provider"
                         /\ ~IsSigned(history[i])
                         /\ history[i].result = "BadOrigin"
                         /\ history[i].subnet_owner \in DOMAIN subnets
    /\ \E i \in Calls : /\ history[i].op = "register_provider"
                         /\ ~IsSigned(history[i])
                         /\ history[i].result = "BadOrigin"
                         /\ history[i].subnet_owner \notin DOMAIN subnets
    /\ LastCall.op = "create_subnet" /\ LastCall.result = "BadOrigin"

====
